---- MODULE Spec2Model ----
(***************************************************************************)
(* Model of the video8 repository: the Next.js frontend (PromptForm, Home, *)
(* VideoResult, utils/api.js), the launcher script (index.js) and the      *)
(* interactive setup script (setup.js).                                    *)
(*                                                                         *)
(* JavaScript values are records [kind, val]; strings are sequences of     *)
(* tokens.  URLs and paths are spelled character by character; fixed       *)
(* message texts are cut into tokens at the boundaries of every substring  *)
(* the code searches for, so that String.includes is a subsequence search. *)
(***************************************************************************)
EXTENDS Integers, Sequences, FiniteSets, TLC

\* ------------------------------------------------------------------------
\* Bounds of the model
\* ------------------------------------------------------------------------
MaxInflight == 2
MaxFetches == 1
MaxPathLen == 5

\* ------------------------------------------------------------------------
\* JavaScript values and string primitives
\* ------------------------------------------------------------------------
Null == [kind |-> "null", val |-> <<>>]
Undefined == [kind |-> "undefined", val |-> <<>>]
Obj == [kind |-> "object", val |-> <<>>]
Str(s) == [kind |-> "string", val |-> s]
ErrorObj(msg) == [kind |-> "Error", val |-> msg]

Truthy(v) == v.kind \in {"object", "Error"} \/ (v.kind = "string" /\ v.val # <<>>)

\* a || b
OrElse(a, b) == IF Truthy(a) THEN a ELSE b

startsWith(s, prefix) ==
  Len(s) >= Len(prefix) /\ SubSeq(s, 1, Len(prefix)) = prefix

includes(s, sub) ==
  \E i \in 0..(Len(s) - Len(sub)) : SubSeq(s, i + 1, i + Len(sub)) = sub

\* a resolver that keeps the leading slash
replaceLeadingSlashKept(s) == s

\* s.replace(/^\//, '')
replaceLeadingSlash(s) == IF s # <<>> /\ Head(s) = "/" THEN Tail(s) ELSE s

IsSpace(c) == c = " "

RECURSIVE trimStart(_)
trimStart(s) == IF s # <<>> /\ IsSpace(Head(s)) THEN trimStart(Tail(s)) ELSE s

RECURSIVE trimEnd(_)
trimEnd(s) ==
  IF s # <<>> /\ IsSpace(s[Len(s)]) THEN trimEnd(SubSeq(s, 1, Len(s) - 1)) ELSE s

trim(s) == trimEnd(trimStart(s))

\* value.toString() of a thrown value
toString(v) ==
  CASE v.kind = "string" -> v.val
    [] v.kind = "Error" -> <<"Error", ": ">> \o v.val
    [] v.kind = "object" -> <<"[object Object]">>
    [] OTHER -> <<v.kind>>

HTTP == <<"h", "t", "t", "p">>
\* 'http://localhost:8002'
LocalBackend8002 ==
  HTTP \o <<":", "/", "/", "l", "o", "c", "a", "l", "h", "o", "s", "t", ":", "8", "0", "0", "2">>
\* 'http://localhost:8000'
LocalBackend8000 ==
  HTTP \o <<":", "/", "/", "l", "o", "c", "a", "l", "h", "o", "s", "t", ":", "8", "0", "0", "0">>
\* a backend address configured through NEXT_PUBLIC_API_URL
CustomBackend == HTTP \o <<":", "/", "/", "b", ":", "9">>

\* ------------------------------------------------------------------------
\* State
\* ------------------------------------------------------------------------
VARIABLES
  NEXT_PUBLIC_API_URL, \* process.env.NEXT_PUBLIC_API_URL of the frontend build
  prompt,              \* PromptForm state
  model,
  useModular,
  isLoading,           \* Home state
  videoPath,
  scriptPath,
  narrationScript,
  error,
  script,              \* VideoResult state
  showScript,
  showNarrationScript,
  inflight,            \* POST /generate requests axios has sent and not settled
  fetches,             \* getScriptData calls awaiting their GET
  lastEvent,           \* history: what the last handler of Home did
  lastDownload         \* history: outcome of the last download handler

VARIABLES
  urlPath,             \* a path returned by the API
  urlPlayer,           \* the URL VideoResult gives the player for urlPath
  urlVideoData,        \* the URL getVideoData requests for urlPath
  urlScriptData        \* the URL getScriptData requests for urlPath

VARIABLES
  launcherPc,          \* the statement of index.js the launcher is at
  fsOutputs,           \* the directory outputs exists
  fsEnv,               \* the content of .env (Null when the file is absent)
  python3Exists,       \* /usr/bin/python3 exists
  backendProcess,      \* the child started with spawn(pythonCommand, ...)
  frontendProcess,     \* the child started with spawn('npm', ['run', 'dev'])
  signalListeners,     \* signals with a listener registered by process.on
  errorListeners,      \* children with a listener for 'error'
  pendingSignal,       \* a caught signal whose listener has not run yet
  launcherExit         \* how the launcher ended

VARIABLES
  setupPc,             \* the statement of setup.js the script is at
  fsEnvLocal,          \* the content of frontend/.env.local (Null when absent)
  rlOpen,              \* the readline interface is open
  answers,             \* what the user typed at the prompts so far
  ran,                 \* the installation commands executed so far
  failed,              \* the installation command that threw, or "none"
  printed,             \* the final message printed: "none", "success", "error"
  continueSetupCalls   \* how often continueSetup was called

VARIABLES
  cleanupPc,           \* the command of cleanup.sh the script is at
  tree,                \* the paths that exist below the working directory
  treeBefore           \* history: the paths that existed when cleanup.sh started

cleanupVars == <<cleanupPc, tree, treeBefore>>
urlVars == <<urlPath, urlPlayer, urlVideoData, urlScriptData>>
launcherVars ==
  <<launcherPc, backendProcess, frontendProcess, signalListeners, errorListeners,
    pendingSignal, launcherExit>>
fsVars == <<fsOutputs, fsEnv, python3Exists, fsEnvLocal>>
setupVars ==
  <<setupPc, rlOpen, answers, ran, failed, printed, continueSetupCalls>>
notFrontend == <<urlVars, launcherVars, fsVars, setupVars, cleanupVars>>

formVars == <<prompt, model, useModular>>
homeVars == <<isLoading, videoPath, scriptPath, narrationScript, error>>
resultVars == <<script, showScript, showNarrationScript>>
frontendVars ==
  <<NEXT_PUBLIC_API_URL, formVars, homeVars, resultVars, inflight, fetches,
    lastEvent, lastDownload>>

\* ------------------------------------------------------------------------
\* Inputs
\* ------------------------------------------------------------------------
EnvValues == {Undefined, Str(CustomBackend)}
Prompts == {<<>>, <<" ">>, <<"a">>, <<" ", "b">>}
Models == {"claude", "groq"}

V1 == <<"/", "o", "/", "v">>
V2 == <<"o", "/", "w">>
S1 == <<"/", "s", "/", "1">>
S2 == <<"s", "/", "2">>
NoNarration == <<"No narration script available for this model.">>
Narration1 == <<"line one", "\n", "line two">>

VideoPathValues == {Undefined, Str(V1), Str(V2)}
ScriptPathValues == {Undefined, Str(S1), Str(S2)}
NarrationValues == {Undefined, Str(Narration1), Str(NoNarration)}
Responses ==
  [video_path : VideoPathValues, script_path : ScriptPathValues,
   narration_script : NarrationValues]

\* errors axios.post can reject with: code, message, response.data.detail
AxiosErrors ==
  { [code |-> "ERR_NETWORK", message |-> Str(<<"Network Error">>), detail |-> Undefined],
    [code |-> "ERR_CONNECTION_REFUSED",
     message |-> Str(<<"connect ECONNREFUSED">>), detail |-> Undefined],
    [code |-> "ERR_BAD_RESPONSE",
     message |-> Str(<<"Request failed with status code 500">>),
     detail |-> Str(<<"Error generating video">>)],
    [code |-> "ERR_BAD_REQUEST",
     message |-> Str(<<"Request failed with status code 422">>), detail |-> Obj],
    [code |-> "ECONNABORTED",
     message |-> Str(<<"net::", "ERR_CONNECTION_REFUSED">>), detail |-> Undefined],
    [code |-> "ERR_CANCELED", message |-> Str(<<>>), detail |-> Undefined] }

\* ------------------------------------------------------------------------
\* frontend/utils/api.js
\* ------------------------------------------------------------------------
DefaultApiUrl == LocalBackend8002

API_URL == OrElse(NEXT_PUBLIC_API_URL, Str(DefaultApiUrl)).val

\* a request whose body takes the model for the prompt
generateVideoRequestSwapped(args) ==
  [method |-> "POST",
   url |-> API_URL \o <<"/", "generate">>,
   body |-> [prompt |-> <<args[2]>>, model |-> args[2], use_modular |-> TRUE]]

\* the request axios.post sends for generateVideo(...args); the third
\* parameter has the default value true
generateVideoRequest(args) ==
  LET use_modular == IF Len(args) >= 3 THEN args[3] ELSE TRUE
  IN [method |-> "POST",
      url |-> API_URL \o <<"/", "generate">>,
      body |-> [prompt |-> args[1], model |-> args[2], use_modular |-> use_modular]]

\* a catch block without the branch for an unreachable backend
generateVideoThrowPlain(e) ==
  OrElse(e.detail, OrElse(e.message, Str(<<"Failed to generate video">>)))

\* what generateVideo throws when axios.post rejects with e
generateVideoThrow(e) ==
  IF e.code = "ERR_NETWORK" \/ e.code = "ERR_CONNECTION_REFUSED"
  THEN ErrorObj(<<"Cannot connect to the ", "backend server", " at ">> \o API_URL
                 \o <<". Please make sure it's running.">>)
  ELSE OrElse(e.detail, OrElse(e.message, Str(<<"Failed to generate video">>)))

getVideoDataFullPath(p) ==
  IF startsWith(p, HTTP) THEN p ELSE API_URL \o <<"/">> \o replaceLeadingSlash(p)

getScriptDataFullPath(p) ==
  IF startsWith(p, HTTP) THEN p ELSE API_URL \o <<"/">> \o replaceLeadingSlash(p)

\* server side of GET fullPath with responseType 'text': the stored script
\* (possibly an empty file)
ScriptBodies(fullPath) == {Str(<<"# script of ">> \o fullPath), Str(<<>>)}

\* ------------------------------------------------------------------------
\* frontend/components/PromptForm.js
\* ------------------------------------------------------------------------
setPrompt(P) ==
  /\ \E p \in P : p # prompt /\ prompt' = p
  /\ UNCHANGED <<notFrontend, NEXT_PUBLIC_API_URL, model, useModular, homeVars, resultVars,
                 inflight, fetches, lastEvent, lastDownload>>

setModel ==
  /\ \E m \in Models : m # model /\ model' = m
  /\ UNCHANGED <<notFrontend, NEXT_PUBLIC_API_URL, prompt, useModular, homeVars, resultVars,
                 inflight, fetches, lastEvent, lastDownload>>

setUseModular ==
  /\ useModular' = ~useModular
  /\ UNCHANGED <<notFrontend, NEXT_PUBLIC_API_URL, prompt, model, homeVars, resultVars,
                 inflight, fetches, lastEvent, lastDownload>>

\* the object PromptForm.handleSubmit passes to onSubmit
PromptFormData == [prompt |-> prompt, model |-> model, use_modular |-> useModular]

\* a submit button that is never disabled
SubmitEnabledAlways == TRUE

\* the submit button is rendered with disabled={isLoading}
SubmitEnabled == ~isLoading

\* ------------------------------------------------------------------------
\* frontend/pages/index.js (Home)
\* ------------------------------------------------------------------------
NoResponse ==
  [video_path |-> Undefined, script_path |-> Undefined, narration_script |-> Undefined]

Event(t, n, r, c) == [type |-> t, posts |-> n, resp |-> r, code |-> c]

\* the arguments Home.handleSubmit passes to generateVideo
HomeGenerateArgs(formData) == <<formData.prompt, formData.model>>

HomeDefaultApiUrl == LocalBackend8002

\* the text Home.handleSubmit stores with setError for a caught err
HomeErrorText(err) ==
  IF includes(toString(err), <<"ERR_CONNECTION_REFUSED">>)
  THEN <<"Could not connect to the ", "backend server",
         ". Please make sure it's running at ">>
       \o OrElse(NEXT_PUBLIC_API_URL, Str(HomeDefaultApiUrl)).val
  ELSE toString(err)

\* a handler that stores the script path as the video path
HomeResultStateSwapped(result) ==
  [videoPath |-> result.script_path, scriptPath |-> result.video_path,
   narrationScript |-> result.narration_script]

\* the values Home.handleSubmit stores from the result of generateVideo
HomeResultState(result) ==
  [videoPath |-> result.video_path, scriptPath |-> result.script_path,
   narrationScript |-> result.narration_script]

\* Home.handleSubmit up to the await of generateVideo
HomeHandleSubmit(formData) ==
  LET req == generateVideoRequest(HomeGenerateArgs(formData))
      sent == Append(inflight,
                     [request |-> req,
                      form |-> [prompt |-> prompt, model |-> model,
                                useModular |-> useModular]])
  IN /\ isLoading' = TRUE
     /\ error' = Null
     /\ inflight' = sent
     /\ lastEvent' = Event("submitted", Len(sent) - Len(inflight), NoResponse, "")
     /\ UNCHANGED <<videoPath, scriptPath, narrationScript>>

\* PromptForm.handleSubmit: a submit event of the form
handleSubmit ==
  /\ SubmitEnabled
  /\ Len(inflight) < MaxInflight
  /\ IF trim(prompt) # <<>>
     THEN HomeHandleSubmit(PromptFormData)
     ELSE /\ lastEvent' = Event("blank", 0, NoResponse, "")
          /\ UNCHANGED <<homeVars, inflight>>
  /\ UNCHANGED <<notFrontend, NEXT_PUBLIC_API_URL, formVars, resultVars, fetches, lastDownload>>

Remove(seq, i) == SubSeq(seq, 1, i - 1) \o SubSeq(seq, i + 1, Len(seq))

\* VideoResult is rendered by Home only while videoPath is truthy
ResultMounted == Truthy(videoPath)

\* Home.handleSubmit after generateVideo resolved with resp, together with
\* the re-render: VideoResult is unmounted when videoPath becomes falsy and
\* its effect resets its state when one of its three props changed
GenerateSucceeds ==
  \E i \in 1..Len(inflight), resp \in Responses :
    LET new == HomeResultState(resp)
        changed == <<videoPath, scriptPath, narrationScript>>
                     # <<new.videoPath, new.scriptPath, new.narrationScript>>
        unmounts == ~Truthy(new.videoPath)
    IN /\ videoPath' = new.videoPath
       /\ scriptPath' = new.scriptPath
       /\ narrationScript' = new.narrationScript
       /\ isLoading' = FALSE
       /\ inflight' = Remove(inflight, i)
       /\ lastEvent' = Event("succeeded", 0, resp, "")
       /\ IF changed \/ unmounts
          THEN /\ script' = Null
               /\ showScript' = FALSE
               /\ showNarrationScript' = FALSE
          ELSE UNCHANGED resultVars
       /\ fetches' = IF unmounts
                     THEN [k \in 1..Len(fetches) |-> [fetches[k] EXCEPT !.live = FALSE]]
                     ELSE fetches
       /\ UNCHANGED <<notFrontend, NEXT_PUBLIC_API_URL, formVars, error, lastDownload>>

\* Home.handleSubmit after generateVideo threw
GenerateFails(E) ==
  \E i \in 1..Len(inflight), e \in E :
    /\ error' = Str(HomeErrorText(generateVideoThrow(e)))
    /\ isLoading' = FALSE
    /\ inflight' = Remove(inflight, i)
    /\ lastEvent' = Event("failed", 0, NoResponse, e.code)
    /\ UNCHANGED <<notFrontend, NEXT_PUBLIC_API_URL, formVars, videoPath, scriptPath,
                   narrationScript, resultVars, fetches, lastDownload>>

\* what Home renders
ErrorBannerShown == Truthy(error)
BackendHintShown == ErrorBannerShown /\ includes(error.val, <<"backend server">>)
VideoPanelShown == Truthy(videoPath)

\* ------------------------------------------------------------------------
\* frontend/components/VideoResult.js
\* ------------------------------------------------------------------------
VideoResultDefaultApiUrl == LocalBackend8002

apiUrl == OrElse(NEXT_PUBLIC_API_URL, Str(VideoResultDefaultApiUrl)).val

\* the src of the <video> element and the href of the video download
fullVideoPath(p) ==
  IF startsWith(p, HTTP) THEN p ELSE apiUrl \o <<"/">> \o replaceLeadingSlash(p)

\* s.split('/').pop()
RECURSIVE lastSegment(_)
lastSegment(s) ==
  IF s = <<>> THEN <<>>
  ELSE IF s[Len(s)] = "/" THEN <<>>
  ELSE lastSegment(SubSeq(s, 1, Len(s) - 1)) \o <<s[Len(s)]>>

\* what VideoResult renders
ViewScriptButtonShown == ResultMounted /\ Truthy(scriptPath)
ViewNarrationButtonShown ==
  ResultMounted /\ Truthy(narrationScript) /\ narrationScript.val # NoNarration
NarrationPanelShown == ResultMounted /\ showNarrationScript /\ Truthy(narrationScript)
CodePanelShown == ResultMounted /\ showScript /\ Truthy(script)

NoDownload == [status |-> "none", file |-> <<>>, content |-> Null]

\* handleDownload: click on 'Download Video'
handleDownload ==
  /\ ResultMounted
  /\ lastDownload' =
       [status |-> "ok",
        file |-> <<"animation_">> \o lastSegment(videoPath.val),
        content |-> Str(fullVideoPath(videoPath.val))]
  /\ UNCHANGED <<notFrontend, NEXT_PUBLIC_API_URL, formVars, homeVars, resultVars, inflight,
                 fetches, lastEvent>>

\* the outcome of a download handler that names its file after scriptPath:
\* scriptPath.split throws a TypeError when scriptPath is null or undefined
ScriptNamedDownload(prefix, content, suffix) ==
  IF scriptPath.kind = "string"
  THEN [status |-> "ok",
        file |-> prefix \o lastSegment(scriptPath.val) \o suffix,
        content |-> content]
  ELSE [status |-> "TypeError", file |-> <<>>, content |-> Null]

\* handleDownloadScript: click on 'Download Code' in the code panel
handleDownloadScript ==
  /\ CodePanelShown
  /\ lastDownload' = ScriptNamedDownload(<<"script_">>, script, <<".py">>)
  /\ UNCHANGED <<notFrontend, NEXT_PUBLIC_API_URL, formVars, homeVars, resultVars, inflight,
                 fetches, lastEvent>>

\* handleDownloadNarration: click on 'Download Script' in the narration panel
handleDownloadNarration ==
  /\ NarrationPanelShown
  /\ lastDownload' = ScriptNamedDownload(<<"narration_">>, narrationScript, <<".txt">>)
  /\ UNCHANGED <<notFrontend, NEXT_PUBLIC_API_URL, formVars, homeVars, resultVars, inflight,
                 fetches, lastEvent>>

\* handleViewScript up to its await (or to its end when nothing is fetched);
\* the closure keeps the scriptPath and showScript of the render it was
\* created in
handleViewScript ==
  /\ ViewScriptButtonShown
  /\ IF ~Truthy(script) /\ Truthy(scriptPath)
     THEN /\ Len(fetches) < MaxFetches
          /\ fetches' = Append(fetches,
                               [path |-> scriptPath.val,
                                fullPath |-> getScriptDataFullPath(scriptPath.val),
                                showScript |-> showScript,
                                live |-> TRUE])
          /\ UNCHANGED showScript
     ELSE /\ showScript' = ~showScript
          /\ UNCHANGED fetches
  /\ UNCHANGED <<notFrontend, NEXT_PUBLIC_API_URL, formVars, homeVars, script,
                 showNarrationScript, inflight, lastEvent, lastDownload>>

\* handleViewScript after getScriptData resolved: setScript, then the toggle
\* with the showScript the closure captured; the state of an unmounted
\* component is not updated
ScriptFetchSucceeds ==
  \E i \in 1..Len(fetches) :
    \E data \in ScriptBodies(fetches[i].fullPath) :
      /\ fetches' = Remove(fetches, i)
      /\ IF fetches[i].live
         THEN /\ script' = data
              /\ showScript' = ~fetches[i].showScript
         ELSE UNCHANGED <<script, showScript>>
      /\ UNCHANGED <<notFrontend, NEXT_PUBLIC_API_URL, formVars, homeVars, showNarrationScript,
                     inflight, lastEvent, lastDownload>>

\* handleViewScript after getScriptData threw: the error is logged, then the
\* toggle
ScriptFetchFails ==
  \E i \in 1..Len(fetches) :
    /\ fetches' = Remove(fetches, i)
    /\ IF fetches[i].live
       THEN showScript' = ~fetches[i].showScript
       ELSE UNCHANGED showScript
    /\ UNCHANGED <<notFrontend, NEXT_PUBLIC_API_URL, formVars, homeVars, script,
                   showNarrationScript, inflight, lastEvent, lastDownload>>

handleViewNarration ==
  /\ ViewNarrationButtonShown
  /\ showNarrationScript' = ~showNarrationScript
  /\ UNCHANGED <<notFrontend, NEXT_PUBLIC_API_URL, formVars, homeVars, script, showScript,
                 inflight, fetches, lastEvent, lastDownload>>

\* ------------------------------------------------------------------------
\* URL resolution on its own: every path over a small alphabet
\* ------------------------------------------------------------------------
Alphabet == {"h", "t", "p", "/", "x"}

RECURSIVE PathsOfLen(_)
PathsOfLen(n) ==
  IF n = 0 THEN {<<>>}
  ELSE {Append(q, c) : q \in PathsOfLen(n - 1), c \in Alphabet}

Paths == UNION {PathsOfLen(n) : n \in 0..MaxPathLen}

\* VideoResult renders the player for a truthy videoPath
RenderPlayer ==
  /\ urlPlayer = Null
  /\ urlPath # <<>>
  /\ urlPlayer' = Str(fullVideoPath(urlPath))
  /\ UNCHANGED <<cleanupVars, frontendVars, urlPath, urlVideoData, urlScriptData, launcherVars,
                 fsVars, setupVars>>

CallGetVideoData ==
  /\ urlVideoData = Null
  /\ urlVideoData' = Str(getVideoDataFullPath(urlPath))
  /\ UNCHANGED <<cleanupVars, frontendVars, urlPath, urlPlayer, urlScriptData, launcherVars,
                 fsVars, setupVars>>

CallGetScriptData ==
  /\ urlScriptData = Null
  /\ urlScriptData' = Str(getScriptDataFullPath(urlPath))
  /\ UNCHANGED <<cleanupVars, frontendVars, urlPath, urlPlayer, urlVideoData, launcherVars,
                 fsVars, setupVars>>

\* ------------------------------------------------------------------------
\* index.js (the launcher)
\* ------------------------------------------------------------------------
Signals == {"SIGINT", "SIGTERM", "SIGQUIT"}

SignalNumber(sig) ==
  CASE sig = "SIGINT" -> 2 [] sig = "SIGQUIT" -> 3 [] sig = "SIGTERM" -> 15

NoChild ==
  [spawned |-> 0, command |-> "", state |-> "none", errorPending |-> FALSE,
   errorLogged |-> FALSE, kills |-> 0]

Alive == [reason |-> "none", code |-> -1, signal |-> "none"]

pythonCommand == IF python3Exists THEN "python3" ELSE "python"

\* spawn(command, ...): the ChildProcess object; a failure to start the
\* command is reported later by an 'error' event
spawn(child, command, ok) ==
  [child EXCEPT !.spawned = @ + 1,
                !.command = command,
                !.state = IF ok THEN "running" ELSE "failed",
                !.errorPending = ~ok]

\* child.kill()
kill(child) == [child EXCEPT !.kills = @ + 1]

\* lines 7-21: the outputs directory and the warning about .env
LauncherStart ==
  /\ launcherPc = "start"
  /\ fsOutputs' = TRUE
  /\ launcherPc' = "spawnBackend"
  /\ UNCHANGED <<cleanupVars, frontendVars, urlVars, setupVars, fsEnv, python3Exists,
                 fsEnvLocal, backendProcess, frontendProcess, signalListeners, errorListeners,
                 pendingSignal, launcherExit>>

\* lines 23-31
SpawnBackend ==
  /\ launcherPc = "spawnBackend"
  /\ \E ok \in BOOLEAN : backendProcess' = spawn(backendProcess, pythonCommand, ok)
  /\ launcherPc' = "spawnFrontend"
  /\ UNCHANGED <<cleanupVars, frontendVars, urlVars, setupVars, fsVars, frontendProcess,
                 signalListeners, errorListeners, pendingSignal, launcherExit>>

\* lines 33-39
SpawnFrontend ==
  /\ launcherPc = "spawnFrontend"
  /\ \E ok \in BOOLEAN : frontendProcess' = spawn(frontendProcess, "npm", ok)
  /\ launcherPc' = "registerSignals"
  /\ UNCHANGED <<cleanupVars, frontendVars, urlVars, setupVars, fsVars, backendProcess,
                 signalListeners, errorListeners, pendingSignal, launcherExit>>

\* lines 41-59: process.on for the three signals
RegisterSignalListeners ==
  /\ launcherPc = "registerSignals"
  /\ signalListeners' = {"SIGINT", "SIGTERM", "SIGQUIT"}
  /\ launcherPc' = "registerErrors"
  /\ UNCHANGED <<cleanupVars, frontendVars, urlVars, setupVars, fsVars, backendProcess,
                 frontendProcess, errorListeners, pendingSignal, launcherExit>>

\* lines 61-77: the 'error' listeners and the closing messages; the script
\* ends and the event loop takes over
RegisterErrorListeners ==
  /\ launcherPc = "registerErrors"
  /\ errorListeners' = {"backend", "frontend"}
  /\ launcherPc' = "running"
  /\ UNCHANGED <<cleanupVars, frontendVars, urlVars, setupVars, fsVars, backendProcess,
                 frontendProcess, signalListeners, pendingSignal, launcherExit>>

\* the operating system delivers a signal to the launcher: with a listener
\* the signal waits for the event loop, without one Node.js ends the
\* process at once with code 128 + signal number
ReceiveSignal ==
  \E sig \in Signals :
    /\ launcherPc # "exited"
    /\ pendingSignal = "none"
    /\ IF sig \in signalListeners
       THEN /\ pendingSignal' = sig
            /\ UNCHANGED <<launcherPc, launcherExit>>
       ELSE /\ launcherPc' = "exited"
            /\ launcherExit' =
                 [reason |-> "default", code |-> 128 + SignalNumber(sig), signal |-> sig]
            /\ UNCHANGED pendingSignal
    /\ UNCHANGED <<cleanupVars, frontendVars, urlVars, setupVars, fsVars, backendProcess,
                   frontendProcess, signalListeners, errorListeners>>

\* cleanup, run by the event loop for a caught signal
cleanup ==
  /\ launcherPc = "running"
  /\ pendingSignal # "none"
  /\ backendProcess' = kill(backendProcess)
  /\ frontendProcess' = kill(frontendProcess)
  /\ launcherPc' = "exited"
  /\ launcherExit' = [reason |-> "cleanup", code |-> 0, signal |-> pendingSignal]
  /\ pendingSignal' = "none"
  /\ UNCHANGED <<cleanupVars, frontendVars, urlVars, setupVars, fsVars, signalListeners,
                 errorListeners>>

\* a listener that ends the launcher
errorEventFatal(listeners, name) == "uncaught"

\* an 'error' event of a child: with a listener it is logged, without one
\* Node.js throws it as an uncaught exception
errorEvent(listeners, name) == IF name \in listeners THEN "logged" ELSE "uncaught"

Uncaught == [reason |-> "uncaught", code |-> 1, signal |-> "none"]

BackendError ==
  /\ launcherPc = "running"
  /\ backendProcess.errorPending
  /\ IF errorEvent(errorListeners, "backend") = "logged"
     THEN /\ backendProcess' =
               [backendProcess EXCEPT !.errorPending = FALSE, !.errorLogged = TRUE]
          /\ UNCHANGED <<launcherPc, launcherExit>>
     ELSE /\ backendProcess' = [backendProcess EXCEPT !.errorPending = FALSE]
          /\ launcherPc' = "exited"
          /\ launcherExit' = Uncaught
  /\ UNCHANGED <<cleanupVars, frontendVars, urlVars, setupVars, fsVars, frontendProcess,
                 signalListeners, errorListeners, pendingSignal>>

FrontendError ==
  /\ launcherPc = "running"
  /\ frontendProcess.errorPending
  /\ IF errorEvent(errorListeners, "frontend") = "logged"
     THEN /\ frontendProcess' =
               [frontendProcess EXCEPT !.errorPending = FALSE, !.errorLogged = TRUE]
          /\ UNCHANGED <<launcherPc, launcherExit>>
     ELSE /\ frontendProcess' = [frontendProcess EXCEPT !.errorPending = FALSE]
          /\ launcherPc' = "exited"
          /\ launcherExit' = Uncaught
  /\ UNCHANGED <<cleanupVars, frontendVars, urlVars, setupVars, fsVars, backendProcess,
                 signalListeners, errorListeners, pendingSignal>>

\* a running child ends on its own
BackendExits ==
  /\ launcherPc # "exited"
  /\ backendProcess.state = "running"
  /\ backendProcess' = [backendProcess EXCEPT !.state = "exited"]
  /\ UNCHANGED <<cleanupVars, frontendVars, urlVars, setupVars, fsVars, launcherPc,
                 frontendProcess, signalListeners, errorListeners, pendingSignal,
                 launcherExit>>

FrontendExits ==
  /\ launcherPc # "exited"
  /\ frontendProcess.state = "running"
  /\ frontendProcess' = [frontendProcess EXCEPT !.state = "exited"]
  /\ UNCHANGED <<cleanupVars, frontendVars, urlVars, setupVars, fsVars, launcherPc,
                 backendProcess, signalListeners, errorListeners, pendingSignal,
                 launcherExit>>

\* with no child left and nothing pending the event loop is empty and the
\* launcher ends with code 0
EventLoopEmpty ==
  /\ launcherPc = "running"
  /\ pendingSignal = "none"
  /\ backendProcess.state \in {"failed", "exited"} /\ ~backendProcess.errorPending
  /\ frontendProcess.state \in {"failed", "exited"} /\ ~frontendProcess.errorPending
  /\ launcherPc' = "exited"
  /\ launcherExit' = [reason |-> "empty", code |-> 0, signal |-> "none"]
  /\ UNCHANGED <<cleanupVars, frontendVars, urlVars, setupVars, fsVars, backendProcess,
                 frontendProcess, signalListeners, errorListeners, pendingSignal>>

\* ------------------------------------------------------------------------
\* setup.js (the interactive setup script)
\* ------------------------------------------------------------------------
ExistingEnv == <<"ANTHROPIC_API_KEY=", "old", "\n">>
ExistingEnvLocal == <<"NEXT_PUBLIC_API_URL=">> \o CustomBackend \o <<"\n">>
WrittenEnvLocal == <<"NEXT_PUBLIC_API_URL=">> \o LocalBackend8000 \o <<"\n">>

CreateAnswers == {<<"y">>, <<"Y", "E", "S">>, <<"y", "e", "s">>, <<"n">>, <<>>, <<"y", "e">>}
Keys == {<<>>, <<"k">>}

toLowerChar(c) ==
  CASE c = "Y" -> "y" [] c = "E" -> "e" [] c = "S" -> "s" [] c = "N" -> "n"
    [] OTHER -> c

toLowerCase(s) == [i \in 1..Len(s) |-> toLowerChar(s[i])]

\* an installation phase that builds before it installs
SetupStepsBuildFirst == <<"frontend build", "pip install", "npm install", "frontend npm install">>

\* the commands of continueSetup in the order of its execSync calls
SetupSteps == <<"pip install", "npm install", "frontend npm install", "frontend build">>

\* a script that writes both lines whatever was entered
envContentBoth(claude, groq) ==
  <<"ANTHROPIC_API_KEY=">> \o claude \o <<"\n">> \o <<"GROQ_API_KEY=">> \o groq \o <<"\n">>

\* the content written to .env for the two answers
envContent(claude, groq) ==
  (IF claude # <<>> THEN <<"ANTHROPIC_API_KEY=">> \o claude \o <<"\n">> ELSE <<>>)
  \o (IF groq # <<>> THEN <<"GROQ_API_KEY=">> \o groq \o <<"\n">> ELSE <<>>)

\* a script that writes frontend/.env.local in any case
ensureEnvLocalAlways(current) == Str(WrittenEnvLocal)

\* lines 120-123: frontend/.env.local is written when it does not exist
ensureEnvLocal(current) == IF current = Null THEN Str(WrittenEnvLocal) ELSE current

\* lines 111-157 up to the first prompt, or to the call of continueSetup
\* when .env exists
SetupStart ==
  /\ setupPc = "start"
  /\ fsOutputs' = TRUE
  /\ fsEnvLocal' = ensureEnvLocal(fsEnvLocal)
  /\ IF fsEnv = Null
     THEN /\ setupPc' = "askCreate"
          /\ UNCHANGED continueSetupCalls
     ELSE /\ setupPc' = "install"
          /\ continueSetupCalls' = continueSetupCalls + 1
  /\ UNCHANGED <<cleanupVars, frontendVars, urlVars, launcherVars, fsEnv, python3Exists, rlOpen,
                 answers, ran, failed, printed>>

\* the callback of 'Would you like to create one now? (y/n): '
AnswerCreate ==
  /\ setupPc = "askCreate"
  /\ \E answer \in CreateAnswers :
       IF toLowerCase(answer) = <<"y">> \/ toLowerCase(answer) = <<"y", "e", "s">>
       THEN /\ setupPc' = "askClaude"
            /\ answers' = [answers EXCEPT !.create = "yes"]
            /\ UNCHANGED continueSetupCalls
       ELSE /\ setupPc' = "install"
            /\ answers' = [answers EXCEPT !.create = "no"]
            /\ continueSetupCalls' = continueSetupCalls + 1
  /\ UNCHANGED <<cleanupVars, frontendVars, urlVars, launcherVars, fsVars, rlOpen, ran,
                 failed, printed>>

\* the callback of 'Enter your ANTHROPIC_API_KEY ...'
AnswerClaude ==
  /\ setupPc = "askClaude"
  /\ \E claude \in Keys : answers' = [answers EXCEPT !.claude = claude]
  /\ setupPc' = "askGroq"
  /\ UNCHANGED <<cleanupVars, frontendVars, urlVars, launcherVars, fsVars, rlOpen, ran,
                 failed, printed, continueSetupCalls>>

\* the callback of 'Enter your GROQ_API_KEY ...': writes .env and calls
\* continueSetup
AnswerGroq ==
  /\ setupPc = "askGroq"
  /\ \E groq \in Keys :
       /\ answers' = [answers EXCEPT !.groq = groq, !.wrote = TRUE]
       /\ fsEnv' = Str(envContent(answers.claude, groq))
  /\ setupPc' = "install"
  /\ continueSetupCalls' = continueSetupCalls + 1
  /\ UNCHANGED <<cleanupVars, frontendVars, urlVars, launcherVars, fsOutputs, python3Exists,
                 fsEnvLocal, rlOpen, ran, failed, printed>>

\* continueSetup: the next execSync returns; after the last one the success
\* message is printed and rl.close() is called
InstallStepSucceeds ==
  /\ setupPc = "install"
  /\ ran' = Append(ran, SetupSteps[Len(ran) + 1])
  /\ IF Len(ran') = Len(SetupSteps)
     THEN /\ printed' = "success"
          /\ rlOpen' = FALSE
          /\ setupPc' = "done"
     ELSE UNCHANGED <<printed, rlOpen, setupPc>>
  /\ UNCHANGED <<cleanupVars, frontendVars, urlVars, launcherVars, fsVars, answers, failed,
                 continueSetupCalls>>

\* continueSetup: the next execSync throws; the catch block prints the
\* error and calls rl.close()
InstallStepFails ==
  /\ setupPc = "install"
  /\ ran' = Append(ran, SetupSteps[Len(ran) + 1])
  /\ failed' = SetupSteps[Len(ran) + 1]
  /\ printed' = "error"
  /\ rlOpen' = FALSE
  /\ setupPc' = "done"
  /\ UNCHANGED <<cleanupVars, frontendVars, urlVars, launcherVars, fsVars, answers,
                 continueSetupCalls>>

\* ------------------------------------------------------------------------
\* cleanup.sh, run in the root of the repository
\* ------------------------------------------------------------------------
\* the files and directories the model follows; the paths of AlwaysThere
\* belong to the repository, the others may or may not exist
Directories ==
  { <<"backend">>, <<"backend", "__pycache__">>,
    <<"frontend">>, <<"frontend", "__pycache__">>,
    <<"media">>,
    <<"outputs">>, <<"outputs", "videos">>, <<"outputs", "videos", "d">>,
    <<"outputs", "texts">>, <<"outputs", "Tex">>, <<"outputs", "scripts">> }

Files ==
  { <<"main.py">>,
    <<"backend", "main.py">>, <<"backend", "__pycache__", "main.pyc">>,
    <<"frontend", "package.json">>,
    <<"media", "t.mp4">>,
    <<"outputs", "videos", "a.mp4">>, <<"outputs", "videos", ".gitkeep">>,
    <<"outputs", "videos", "d", "p.mp4">>,
    <<"outputs", "scripts", "s.py">> }

AlwaysThere == {<<"backend">>, <<"frontend">>, <<"frontend", "package.json">>}

\* names the shell pattern * does not match
DotNames == {".gitkeep"}

Parent(p) == SubSeq(p, 1, Len(p) - 1)

\* p is d or lies below d
Within(d, p) == Len(d) <= Len(p) /\ SubSeq(p, 1, Len(d)) = d

\* every path has its parent directory
IsTree(t) == \A p \in t : Len(p) > 1 => Parent(p) \in t

Trees == {AlwaysThere \cup t : t \in {u \in SUBSET ((Directories \cup Files) \ AlwaysThere) :
                                        IsTree(AlwaysThere \cup u)}}

\* rm -f names: removes the named files
rmF(t, names) == {p \in t : ~(p \in names /\ p \in Files)}

\* rm -rf targets: removes each target with everything below it
rmRf(t, targets) == {p \in t : \A d \in targets : ~Within(d, p)}

\* find . -name "__pycache__" -type d
findPycache(t) == {p \in t : p[Len(p)] = "__pycache__" /\ p \in Directories}

\* a pattern that matches nothing
globStarNone(t, dir) == {}

\* the expansion of dir/* by the shell: the entries of dir whose name does
\* not begin with a dot
globStar(t, dir) ==
  {p \in t : Parent(p) = dir /\ p[Len(p)] \notin DotNames}

Prefixes(p) == {SubSeq(p, 1, n) : n \in 1..Len(p)}

\* mkdir -p dirs: creates each directory and its missing parents
mkdirP(t, dirs) == t \cup UNION {Prefixes(d) : d \in dirs}

OutputDirs ==
  { <<"outputs", "videos">>, <<"outputs", "texts">>, <<"outputs", "Tex">>,
    <<"outputs", "scripts">> }

\* line 9
RemoveRootDuplicates ==
  /\ cleanupPc = "rmRoot"
  /\ tree' = rmF(tree, { <<"main.py">>, <<"groq_handler.py">>, <<"llm_handler.py">>,
                         <<"scene_generator.py">> })
  /\ cleanupPc' = "findPycache"
  /\ UNCHANGED <<frontendVars, urlVars, launcherVars, fsVars, setupVars, treeBefore>>

\* line 13
RemovePycache ==
  /\ cleanupPc = "findPycache"
  /\ tree' = rmRf(tree, findPycache(tree))
  /\ cleanupPc' = "rmMedia"
  /\ UNCHANGED <<frontendVars, urlVars, launcherVars, fsVars, setupVars, treeBefore>>

\* line 17
RemoveMedia ==
  /\ cleanupPc = "rmMedia"
  /\ tree' = rmRf(tree, {<<"media">>})
  /\ cleanupPc' = "rmOutputs"
  /\ UNCHANGED <<frontendVars, urlVars, launcherVars, fsVars, setupVars, treeBefore>>

\* lines 21-24
CleanOutputs ==
  /\ cleanupPc = "rmOutputs"
  /\ tree' = rmRf(tree, UNION {globStar(tree, d) : d \in OutputDirs})
  /\ cleanupPc' = "mkdir"
  /\ UNCHANGED <<frontendVars, urlVars, launcherVars, fsVars, setupVars, treeBefore>>

\* line 26
MakeOutputDirs ==
  /\ cleanupPc = "mkdir"
  /\ tree' = mkdirP(tree, OutputDirs)
  /\ cleanupPc' = "done"
  /\ UNCHANGED <<frontendVars, urlVars, launcherVars, fsVars, setupVars, treeBefore>>

InitCleanupIdle ==
  /\ cleanupPc = "rmRoot"
  /\ tree = AlwaysThere
  /\ treeBefore = AlwaysThere

\* ------------------------------------------------------------------------
\* Initial states
\* ------------------------------------------------------------------------
InitPage ==
  /\ prompt = <<>>
  /\ model = "claude"
  /\ useModular = TRUE
  /\ isLoading = FALSE
  /\ videoPath = Null
  /\ scriptPath = Null
  /\ narrationScript = Null
  /\ error = Null
  /\ script = Null
  /\ showScript = FALSE
  /\ showNarrationScript = FALSE
  /\ inflight = <<>>
  /\ fetches = <<>>
  /\ lastEvent = Event("none", 0, NoResponse, "")
  /\ lastDownload = NoDownload

InitUrlIdle ==
  /\ urlPath = <<>>
  /\ urlPlayer = Null
  /\ urlVideoData = Null
  /\ urlScriptData = Null

InitLauncher ==
  /\ launcherPc = "start"
  /\ backendProcess = NoChild
  /\ frontendProcess = NoChild
  /\ signalListeners = {}
  /\ errorListeners = {}
  /\ pendingSignal = "none"
  /\ launcherExit = Alive

InitSetup ==
  /\ setupPc = "start"
  /\ rlOpen = TRUE
  /\ answers = [create |-> "unasked", claude |-> <<>>, groq |-> <<>>, wrote |-> FALSE]
  /\ ran = <<>>
  /\ failed = "none"
  /\ printed = "none"
  /\ continueSetupCalls = 0

InitFsIdle ==
  /\ fsOutputs = FALSE
  /\ fsEnv = Null
  /\ python3Exists = TRUE
  /\ fsEnvLocal = Null

InitFs ==
  /\ fsOutputs \in BOOLEAN
  /\ fsEnv \in {Null, Str(ExistingEnv)}
  /\ python3Exists \in BOOLEAN
  /\ fsEnvLocal \in {Null, Str(ExistingEnvLocal)}

vars == <<frontendVars, notFrontend>>

\* ------------------------------------------------------------------------
\* Specifications
\* ------------------------------------------------------------------------
\* the page: the form, Home and the requests to /generate
Init ==
  /\ NEXT_PUBLIC_API_URL \in EnvValues
  /\ InitPage /\ InitUrlIdle /\ InitLauncher /\ InitSetup /\ InitCleanupIdle /\ InitFsIdle

Next ==
  \/ setPrompt(Prompts)
  \/ setModel
  \/ setUseModular
  \/ handleSubmit
  \/ GenerateSucceeds
  \/ GenerateFails(AxiosErrors)

Spec == Init /\ [][Next]_vars

\* the result panel: one prompt, one kind of failure, and every handler of
\* VideoResult
ResultPrompts == {<<"a">>}
ResultErrors == {e \in AxiosErrors : e.code = "ERR_NETWORK"}

NextResult ==
  \/ setPrompt(ResultPrompts)
  \/ handleSubmit
  \/ GenerateSucceeds
  \/ GenerateFails(ResultErrors)
  \/ handleDownload
  \/ handleViewScript
  \/ ScriptFetchSucceeds
  \/ ScriptFetchFails
  \/ handleViewNarration
  \/ handleDownloadScript
  \/ handleDownloadNarration

SpecResult == Init /\ [][NextResult]_vars

\* URL resolution of every path
InitUrl ==
  /\ NEXT_PUBLIC_API_URL \in EnvValues
  /\ urlPath \in Paths
  /\ urlPlayer = Null
  /\ urlVideoData = Null
  /\ urlScriptData = Null
  /\ InitPage /\ InitLauncher /\ InitSetup /\ InitCleanupIdle /\ InitFsIdle

NextUrl ==
  \/ RenderPlayer
  \/ CallGetVideoData
  \/ CallGetScriptData

SpecUrl == InitUrl /\ [][NextUrl]_vars

\* the launcher
InitLauncherSpec ==
  /\ NEXT_PUBLIC_API_URL = Undefined
  /\ InitPage /\ InitUrlIdle /\ InitLauncher /\ InitSetup /\ InitCleanupIdle /\ InitFs

NextLauncher ==
  \/ LauncherStart
  \/ SpawnBackend
  \/ SpawnFrontend
  \/ RegisterSignalListeners
  \/ RegisterErrorListeners
  \/ ReceiveSignal
  \/ cleanup
  \/ BackendError
  \/ FrontendError
  \/ BackendExits
  \/ FrontendExits
  \/ EventLoopEmpty

SpecLauncher == InitLauncherSpec /\ [][NextLauncher]_vars

\* the setup script
NextSetup ==
  \/ SetupStart
  \/ AnswerCreate
  \/ AnswerClaude
  \/ AnswerGroq
  \/ InstallStepSucceeds
  \/ InstallStepFails

SpecSetup == InitLauncherSpec /\ [][NextSetup]_vars

\* the cleanup script
InitCleanup ==
  /\ NEXT_PUBLIC_API_URL = Undefined
  /\ cleanupPc = "rmRoot"
  /\ tree \in Trees
  /\ treeBefore = tree
  /\ InitPage /\ InitUrlIdle /\ InitLauncher /\ InitSetup /\ InitFsIdle

NextCleanup ==
  \/ RemoveRootDuplicates
  \/ RemovePycache
  \/ RemoveMedia
  \/ CleanOutputs
  \/ MakeOutputDirs

SpecCleanup == InitCleanup /\ [][NextCleanup]_vars

\* ------------------------------------------------------------------------
\* Properties
\* ------------------------------------------------------------------------
GenerateUrl == API_URL \o <<"/", "generate">>

\* C1: a submit event of the form with a non-blank prompt issues exactly
\* one POST to {API_URL}/generate, and the prompt and the model of its body
\* are the values the prompt field and the model selector have at that
\* moment.
C1_OnePostWithFormValues ==
  [][(lastEvent' # lastEvent /\ lastEvent'.type \in {"submitted", "blank"}
        /\ trim(prompt) # <<>>)
       => /\ lastEvent'.type = "submitted"
          /\ lastEvent'.posts = 1
          /\ Len(inflight') = Len(inflight) + 1
          /\ LET sent == inflight'[Len(inflight')].request
             IN /\ sent.method = "POST"
                /\ sent.url = GenerateUrl
                /\ sent.body.prompt = prompt
                /\ sent.body.model = model]_vars

C1_Witness ==
  /\ lastEvent.type = "submitted"
  /\ Len(inflight) = 1
  /\ inflight[1].request.body.model = "groq"
  /\ inflight[1].request.body.prompt = <<" ", "b">>

\* C2: after a /generate request succeeded, videoPath, scriptPath and
\* narrationScript of the page are the video_path, script_path and
\* narration_script of the response, and the video result panel is
\* displayed exactly when videoPath is a non-empty string.
C2_ResultStored ==
  /\ lastEvent.type = "succeeded"
       => /\ videoPath = lastEvent.resp.video_path
          /\ scriptPath = lastEvent.resp.script_path
          /\ narrationScript = lastEvent.resp.narration_script
  /\ VideoPanelShown <=> (videoPath.kind = "string" /\ Len(videoPath.val) > 0)

C2_Witness ==
  /\ lastEvent.type = "succeeded"
  /\ VideoPanelShown
  /\ videoPath = Str(V1)
  /\ scriptPath = Str(S2)
  /\ narrationScript = Str(Narration1)

\* C3: the use_modular flag in the body of a /generate request is the state
\* of the 'Use modular scene generation' checkbox at the moment of the
\* submission.
C3_UseModularSent ==
  \A i \in 1..Len(inflight) :
    inflight[i].request.body.use_modular = inflight[i].form.useModular

\* C4: when the /generate request failed with code ERR_NETWORK or
\* ERR_CONNECTION_REFUSED, the submission ends with a displayed error that
\* contains 'backend server' and the backend URL, and the hint to run the
\* backend manually is displayed with it.
C4_UnreachableBackendError ==
  (lastEvent.type = "failed"
     /\ lastEvent.code \in {"ERR_NETWORK", "ERR_CONNECTION_REFUSED"})
    => /\ ~isLoading
       /\ ErrorBannerShown
       /\ includes(error.val, <<"backend server">>)
       /\ includes(error.val, API_URL)
       /\ BackendHintShown

C4_Witness ==
  /\ lastEvent.type = "failed"
  /\ lastEvent.code = "ERR_CONNECTION_REFUSED"
  /\ BackendHintShown
  /\ NEXT_PUBLIC_API_URL = Str(CustomBackend)

\* C5: whenever the code panel or the narration panel is displayed,
\* scriptPath is a non-empty string and the content to download is not
\* null, and no download handler ends with an error.
C5_DownloadPossible ==
  /\ CodePanelShown
       => scriptPath.kind = "string" /\ scriptPath.val # <<>> /\ script # Null
  /\ NarrationPanelShown
       => /\ scriptPath.kind = "string" /\ scriptPath.val # <<>>
          /\ narrationScript # Null
  /\ lastDownload.status # "TypeError"

\* the address on which the launcher announces the backend
LauncherBackendUrl == LocalBackend8000

Resolved(base, p) == base \o <<"/">> \o (IF p # <<>> /\ Head(p) = "/" THEN Tail(p) ELSE p)

\* C6: when NEXT_PUBLIC_API_URL is not set, the /generate request, the
\* video URL and the script URL all use the base http://localhost:8000.
C6_DefaultBase ==
  NEXT_PUBLIC_API_URL = Undefined
    => /\ \A i \in 1..Len(inflight) :
            inflight[i].request.url = LauncherBackendUrl \o <<"/", "generate">>
       /\ VideoPanelShown
            => fullVideoPath(videoPath.val) = Resolved(LauncherBackendUrl, videoPath.val)
       /\ Truthy(scriptPath)
            => getScriptDataFullPath(scriptPath.val)
                 = Resolved(LauncherBackendUrl, scriptPath.val)

\* the three URLs computed for urlPath so far
UrlResults == {u \in {urlPlayer, urlVideoData, urlScriptData} : u # Null}

\* a relative path written without a leading slash
PlainRelative(p) == p # <<>> /\ Head(p) # "/" /\ ~startsWith(p, HTTP)

\* C7: the URL used for a path p is p itself when p starts with 'http' and
\* otherwise API_URL + '/' + p with one leading '/' removed; a relative path
\* resolves to the same URL with and without a leading '/', with exactly
\* one '/' after the base; the video player, getVideoData and getScriptData
\* resolve the same path to the same URL.
C7_UrlResolution ==
  /\ \A u \in UrlResults :
       /\ u.val = IF startsWith(urlPath, HTTP) THEN urlPath
                  ELSE Resolved(API_URL, urlPath)
       /\ PlainRelative(urlPath)
            => /\ u.val[Len(API_URL) + 1] = "/"
               /\ u.val[Len(API_URL) + 2] # "/"
  /\ Cardinality(UrlResults) <= 1
  /\ (PlainRelative(urlPath) /\ urlPlayer # Null)
       => fullVideoPath(<<"/">> \o urlPath) = urlPlayer.val
  /\ (PlainRelative(urlPath) /\ urlVideoData # Null)
       => getVideoDataFullPath(<<"/">> \o urlPath) = urlVideoData.val
  /\ (PlainRelative(urlPath) /\ urlScriptData # Null)
       => getScriptDataFullPath(<<"/">> \o urlPath) = urlScriptData.val

C7_Witness ==
  /\ urlPath = <<"/", "x", "/", "x">>
  /\ urlPlayer # Null /\ urlVideoData # Null /\ urlScriptData # Null
  /\ urlPlayer.val = API_URL \o <<"/", "x", "/", "x">>

\* C8: when the launcher ended after receiving SIGINT, SIGTERM or SIGQUIT
\* with both children spawned, a kill was sent to the backend and to the
\* frontend child, and the exit code is 0.
C8_SignalStopsServices ==
  (launcherPc = "exited" /\ launcherExit.signal \in Signals
     /\ backendProcess.spawned = 1 /\ frontendProcess.spawned = 1)
    => /\ backendProcess.kills >= 1
       /\ frontendProcess.kills >= 1
       /\ launcherExit.code = 0

\* the launcher is past both spawn statements
PastSpawns ==
  \/ launcherPc \in {"registerSignals", "registerErrors", "running"}
  \/ launcherPc = "exited" /\ launcherExit.reason \in {"cleanup", "empty", "uncaught"}

\* C9: each of the two children is spawned exactly once; a spawn error of
\* one child is only logged: it does not keep the other child from being
\* spawned, sends no kill to it and does not end the launcher.
C9_BothSpawnedOnce ==
  /\ backendProcess.spawned <= 1 /\ frontendProcess.spawned <= 1
  /\ PastSpawns => backendProcess.spawned = 1 /\ frontendProcess.spawned = 1
  /\ launcherExit.reason # "uncaught"
  /\ (backendProcess.kills > 0 \/ frontendProcess.kills > 0)
       => launcherExit.reason = "cleanup"
  /\ (launcherPc = "exited" /\ launcherExit.reason = "empty")
       => frontendProcess.state # "running" /\ backendProcess.state # "running"

C9_Witness ==
  /\ launcherPc = "running"
  /\ backendProcess.state = "failed" /\ backendProcess.errorLogged
  /\ frontendProcess.state = "running" /\ frontendProcess.spawned = 1
  /\ frontendProcess.kills = 0

IsPrefix(a, b) == Len(a) <= Len(b) /\ SubSeq(b, 1, Len(a)) = a

InstallOrder == <<"pip install", "npm install", "frontend npm install", "frontend build">>

\* C10: the installation commands run in the order Python dependencies,
\* root npm install, frontend npm install, frontend build; a failing command
\* is the last one run and leads to the error message instead of the
\* success message; in both cases the readline interface is closed when the
\* script is done.
C10_InstallOrder ==
  /\ IsPrefix(ran, InstallOrder)
  /\ failed # "none"
       => /\ ran[Len(ran)] = failed
          /\ printed = "error"
          /\ setupPc = "done"
  /\ printed = "success" <=> (failed = "none" /\ ran = InstallOrder)
  /\ printed = "error" <=> failed # "none"
  /\ setupPc = "done" <=> printed # "none"
  /\ setupPc = "done" => ~rlOpen

C10_Witness ==
  /\ setupPc = "done"
  /\ failed = "npm install"
  /\ ran = <<"pip install", "npm install">>
  /\ printed = "error"
  /\ ~rlOpen

\* the path lies in a __pycache__ directory or is one
InPycache(p) == \E n \in 1..Len(p) : p[n] = "__pycache__"

\* C11: after cleanup.sh the directories outputs/videos, outputs/texts,
\* outputs/Tex and outputs/scripts exist, also when they did not exist
\* before, and hold nothing the pattern * matches, so no generated file; and
\* every path under backend/ or frontend/ that existed before and is not in
\* a __pycache__ directory still exists.
C11_CleanupKeepsStructure ==
  /\ cleanupPc = "done"
       => /\ OutputDirs \subseteq tree
          /\ \A p \in tree :
               (\E d \in OutputDirs : Within(d, p) /\ p # d)
                 => p[Len(p)] \in DotNames
          /\ IsTree(tree)
  /\ \A p \in treeBefore :
       ((Within(<<"backend">>, p) \/ Within(<<"frontend">>, p)) /\ ~InPycache(p))
         => p \in tree

C11_Witness ==
  /\ cleanupPc = "done"
  /\ <<"outputs", "videos", "d", "p.mp4">> \in treeBefore
  /\ <<"outputs", "scripts", "s.py">> \in treeBefore
  /\ <<"outputs", "texts">> \notin treeBefore
  /\ <<"outputs", "texts">> \in tree
  /\ <<"backend", "__pycache__", "main.pyc">> \in treeBefore
  /\ <<"backend", "main.py">> \in tree
  /\ <<"backend", "__pycache__">> \notin tree

\* the text stored at fullPath on the server
StoredScript(fullPath) == Str(<<"# script of ">> \o fullPath)

\* C12: the script VideoResult holds, and so the one the code panel
\* displays, is the script fetched for the current scriptPath; a fetch
\* started for an earlier video never becomes the stored script.
C12_ScriptOfCurrentPath ==
  (ResultMounted /\ Truthy(script))
    => /\ scriptPath.kind = "string"
       /\ script = StoredScript(getScriptDataFullPath(scriptPath.val))

\* C13: at most one /generate request is in flight; while it is pending
\* isLoading is true and the submit button is disabled.
C13_OneRequestInFlight ==
  /\ Len(inflight) <= 1
  /\ Len(inflight) = 1 => isLoading /\ ~SubmitEnabled
  /\ isLoading => Len(inflight) = 1

C13_Witness ==
  /\ Len(inflight) = 1
  /\ isLoading
  /\ trim(prompt) # <<>>
  /\ prompt # inflight[1].request.body.prompt
  /\ VideoPanelShown

SetupPrompts == {"askCreate", "askClaude", "askGroq"}

\* C14: an existing .env and an existing frontend/.env.local are never
\* changed, so each file is written only when it was absent, and the user
\* is at a prompt only when .env does not exist.
C14_NoOverwrite ==
  [][/\ fsEnv # Null => fsEnv' = fsEnv
     /\ fsEnvLocal # Null => fsEnvLocal' = fsEnvLocal
     /\ setupPc' \in SetupPrompts => fsEnv = Null]_vars

C14_Witness ==
  /\ setupPc = "done"
  /\ fsEnv = Str(ExistingEnv)
  /\ fsEnvLocal = Str(ExistingEnvLocal)
  /\ answers.create = "unasked"

Line(name, value) == <<name>> \o value \o <<"\n">>

\* C15: the .env written after the user agreed has an ANTHROPIC_API_KEY
\* line exactly when a non-empty Claude key was entered and a GROQ_API_KEY
\* line exactly when a non-empty Groq key was entered; after the user
\* declined there is no .env; on each path continueSetup has been called
\* exactly once when the installation phase is reached, and not before.
C15_EnvFromAnswers ==
  /\ answers.wrote
       => /\ answers.create = "yes"
          /\ fsEnv.kind = "string"
          /\ includes(fsEnv.val, <<"ANTHROPIC_API_KEY=">>) <=> answers.claude # <<>>
          /\ includes(fsEnv.val, <<"GROQ_API_KEY=">>) <=> answers.groq # <<>>
          /\ answers.claude # <<>>
               => includes(fsEnv.val, Line("ANTHROPIC_API_KEY=", answers.claude))
          /\ answers.groq # <<>>
               => includes(fsEnv.val, Line("GROQ_API_KEY=", answers.groq))
  /\ answers.create = "no" => fsEnv = Null /\ ~answers.wrote
  /\ continueSetupCalls = IF setupPc \in {"install", "done"} THEN 1 ELSE 0
  /\ setupPc \in {"install", "done"}
       => \/ answers.create = "unasked" /\ fsEnv = Str(ExistingEnv)
          \/ answers.create = "yes" /\ answers.wrote
          \/ answers.create = "no"

C15_Witness ==
  /\ setupPc = "done"
  /\ answers.wrote
  /\ answers.claude = <<>>
  /\ answers.groq = <<"k">>
  /\ fsEnv = Str(Line("GROQ_API_KEY=", <<"k">>))
  /\ continueSetupCalls = 1

====
